---- MODULE Spec2Model ----
(***************************************************************************)
(* Model of snek's chain-sync input (the sync engine) and of its           *)
(* chain-sync filter stage.                                                *)
(*                                                                         *)
(* Go strings are sequences of one-character strings, byte slices are      *)
(* sequences of numbers 0..255, a nil pointer/slice is the empty sequence. *)
(* A buffered channel is a sequence plus a closed flag; a send on a closed *)
(* channel and a close of a closed channel panic, which ends the process.  *)
(***************************************************************************)
EXTENDS Integers, Sequences, FiniteSets, TLC

VARIABLES
    \* ---- filter stage (src/filter/chainsync/chainsync.go) ----
    filterAddresses,         \* []string
    filterPolicyIds,         \* []string
    filterAssetFingerprints, \* []string
    inputChan,               \* buffered contents of c.inputChan
    inputChanClosed,
    outputChan,              \* buffered contents of c.outputChan
    outputChanClosed,
    filterErrorChanClosed,   \* c.errorChan of the filter (never sent on)
    loopPc,                  \* the goroutine of Start: none | recv | send | done
    evt,                     \* the event the loop holds (evt of line 52), <<>> when none
    filterStopPc,            \* Stop: none | input_closed | output_closed | done
    feed,                    \* the upstream's events (the last one repeats)
    feedLimit,               \* how many events the upstream pushes in this run
    inLog,                   \* every event pushed into inputChan, in order
    outLog,                  \* every event written to outputChan, in order
    lastTaken,               \* last event the loop received, <<>> before the first
    lastForwarded,           \* whether the loop decided to forward lastTaken
    upstreamClosed,          \* the inbound queue was closed by its upstream owner
    \* ---- sync engine (src/unnamed/part_001) ----
    options,                 \* network, address, socketPath, ntcTcp, bulkMode, intersectTip
    intersectPoints,         \* c.intersectPoints
    oConn,                   \* the connection: state nil | open | failed | closed, useNtn
    connErrors,              \* buffered contents of c.oConn.ErrorChan()
    connErrorsClosed,
    bulkRangeStart,
    bulkRangeEnd,
    status,                  \* *c.status
    eventChan,               \* buffered contents of c.eventChan
    eventChanClosed,
    errorChanClosed,         \* c.errorChan (unbuffered)
    errorsReceived,          \* what the owner has received from ErrorChan()
    startPc,                 \* Start: new | started | failed
    startErr,                \* the error Start returned, "" when none
    hPc,                     \* the running protocol callback and its position
    hBlock,                  \* the block it handles
    hPoint,                  \* roll-backward: the rollback point
    hTip,                    \* the tip passed to it
    hTx,                     \* index of the next transaction of its loop
    forwarderPc,             \* goroutine of lines 190-198: none | recv | send | done
    forwarderErr,
    engineStopPc,            \* Stop: none | conn_closed | event_closed | done
    syncCalls,               \* every ChainSync().Client.Sync request, in order
    blockRangeCalls,         \* every BlockFetch().Client.GetBlockRange request
    bulkNextSlot,            \* lowest slot the range fetch may still deliver
    notifs,                  \* protocol callbacks started so far
    notifLimit,              \* callbacks the node makes in this run
    lastSent,                \* last event enqueued on eventChan
    prevSent,                \* the one before
    blockEventsSent,         \* block events enqueued so far
    blocksFetched,           \* handleBlockFetchBlock calls so far
    statusUpdates,           \* calls of the status observer so far
    panic                    \* "" or the Go runtime panic that ended the process

filterVars == <<filterAddresses, filterPolicyIds, filterAssetFingerprints,
                inputChan, inputChanClosed, outputChan, outputChanClosed,
                filterErrorChanClosed, loopPc, evt, filterStopPc, feed, feedLimit,
                inLog, outLog, lastTaken, lastForwarded, upstreamClosed>>

engineVars == <<options, intersectPoints, oConn, connErrors, connErrorsClosed,
                bulkRangeStart, bulkRangeEnd, status, eventChan, eventChanClosed,
                errorChanClosed, errorsReceived, startPc, startErr, hPc, hBlock,
                hPoint, hTip, hTx, forwarderPc, forwarderErr, engineStopPc,
                syncCalls, blockRangeCalls, bulkNextSlot, notifs, notifLimit,
                lastSent, prevSent, blockEventsSent, blocksFetched, statusUpdates>>

vars == <<filterVars, engineVars, panic>>

-----------------------------------------------------------------------------
\* Bounds of the model

\* events the upstream pushes in a pipeline run (more than one full queue)
MaxFeed == 12
\* events the upstream pushes in a run that draws the filter inputs widely
MaxFeedWide == 2

\* make(chan event.Event, 10)
FilterChanCap == 10

-----------------------------------------------------------------------------
\* Strings and byte slices

HexDigits == <<"0","1","2","3","4","5","6","7","8","9","a","b","c","d","e","f">>

\* hex.EncodeToString / Blake2b224.String(): two lower-case digits per byte
RECURSIVE HexEncode(_)
HexEncode(bytes) ==
    IF bytes = <<>> THEN <<>>
    ELSE <<HexDigits[(bytes[1] \div 16) + 1], HexDigits[(bytes[1] % 16) + 1]>>
         \o HexEncode(Tail(bytes))

\* strings.HasPrefix
HasPrefix(s, prefix) ==
    Len(s) >= Len(prefix) /\ SubSeq(s, 1, Len(prefix)) = prefix

StakePrefix == <<"s","t","a","k","e">>

\* ledger.NewAssetFingerprint(policyId.Bytes(), assetName).String(): a fixed
\* human-readable prefix and a digest of the policy bytes followed by the name
\* bytes (the digest is taken as collision-free: the hex of its input)
NewAssetFingerprint(policyBytes, assetName) ==
    <<"a","s","s","e","t","1">> \o HexEncode(policyBytes \o assetName)

-----------------------------------------------------------------------------
\* Sample chain data for the filter stage

AddrPay1 == <<"a","d","d","r","1">>
AddrPay2 == <<"a","d","d","r","2">>
AddrPay3 == <<"a","d","d","r","3">>
StakeKey1 == <<"s","t","a","k","e","1">>
StakeKey2 == <<"s","t","a","k","e","2">>
\* a configured string of stake form that is no address of the sample chain
StakeOther == <<"s","t","a","k","e","h","o","l","d","e","r">>
\* a configured string shorter than the stake prefix
ShortStr == <<"s","t","a","k">>

PolicyA == <<171>>
PolicyB == <<205>>
NameX == <<1>>
NameY == <<2>>

\* ledger.TransactionOutput as the filter reads it: Address().String(),
\* Address().StakeAddress() (<<>> is nil, else its String()), Assets() (nil when
\* hasAssets is FALSE, else the policies in order, each with its asset names)
OutPayStake == [address |-> AddrPay1, stakeAddress |-> StakeKey1,
                hasAssets |-> FALSE, assets |-> <<>>]
OutEnterprise == [address |-> AddrPay2, stakeAddress |-> <<>>,
                  hasAssets |-> TRUE,
                  assets |-> <<[policyId |-> PolicyA, names |-> <<NameX>>]>>]
OutTwoPolicies == [address |-> AddrPay3, stakeAddress |-> StakeKey2,
                   hasAssets |-> TRUE,
                   assets |-> <<[policyId |-> PolicyA, names |-> <<NameY>>],
                               [policyId |-> PolicyB, names |-> <<NameX, NameY>>]>>]
OutReward == [address |-> StakeKey2, stakeAddress |-> <<>>,
              hasAssets |-> TRUE, assets |-> <<>>]

OutputSamples == {OutPayStake, OutEnterprise, OutTwoPolicies, OutReward}

\* event.Event with its payload flattened; timestamp is a logical clock
BlockEvt == [kind |-> "chainsync.block", timestamp |-> 0, slotNumber |-> 7,
             transactionHash |-> 0, outputs |-> <<>>]
RollbackEvt == [kind |-> "chainsync.rollback", timestamp |-> 0, slotNumber |-> 5,
                transactionHash |-> 0, outputs |-> <<>>]
TxEvt(h, outs) == [kind |-> "chainsync.transaction", timestamp |-> 0,
                   slotNumber |-> 7, transactionHash |-> h, outputs |-> outs]

TxSamples ==
    {TxEvt(1, <<>>)}
    \cup {TxEvt(2, <<o>>) : o \in OutputSamples}
    \cup {TxEvt(3, <<OutPayStake, OutEnterprise>>),
          TxEvt(4, <<OutEnterprise, OutTwoPolicies>>),
          TxEvt(5, <<OutReward, OutPayStake>>)}

EventSamples == {BlockEvt, RollbackEvt} \cup TxSamples

AddressFilterSamples ==
    {<<>>, <<AddrPay1>>, <<StakeKey1>>, <<AddrPay2, StakeKey2>>,
     <<StakeOther, AddrPay3>>, <<ShortStr>>}
PolicyFilterSamples ==
    {<<>>, <<HexEncode(PolicyA)>>, <<<<"A","B">>>>,
     <<HexEncode(<<1>>), HexEncode(PolicyB)>>}
FingerprintFilterSamples ==
    {<<>>, <<NewAssetFingerprint(PolicyA, NameX)>>,
     <<NewAssetFingerprint(PolicyA, NameX), NewAssetFingerprint(PolicyB, NameY)>>,
     <<NewAssetFingerprint(PolicyB, <<3>>)>>}

-----------------------------------------------------------------------------
\* The filter of the loop body, lines 57-152, loop by loop

\* mutant of addressFoundMatch: the stake-address rule of lines 70-79 is missing
RECURSIVE addressFoundMatch_ExactOnly(_, _, _)
addressFoundMatch_ExactOnly(filterAddress, outputs, i) ==
    IF i > Len(outputs) THEN FALSE
    ELSE IF outputs[i].address = filterAddress THEN TRUE
    ELSE addressFoundMatch_ExactOnly(filterAddress, outputs, i + 1)

\* lines 65-80: the scan of v.Outputs for one filterAddress, from output i on
RECURSIVE addressFoundMatch(_, _, _)
addressFoundMatch(filterAddress, outputs, i) ==
    IF i > Len(outputs) THEN FALSE
    ELSE IF outputs[i].address = filterAddress THEN TRUE
    ELSE IF HasPrefix(filterAddress, StakePrefix)
         THEN IF outputs[i].stakeAddress = <<>>
              THEN addressFoundMatch(filterAddress, outputs, i + 1)
              ELSE IF outputs[i].stakeAddress = filterAddress THEN TRUE
              ELSE addressFoundMatch(filterAddress, outputs, i + 1)
         ELSE addressFoundMatch(filterAddress, outputs, i + 1)

\* lines 61-85: filterMatched of the address category, from filter value j on
RECURSIVE addressFilterMatched(_, _, _)
addressFilterMatched(addresses, outputs, j) ==
    IF j > Len(addresses) THEN FALSE
    ELSE IF addressFoundMatch(addresses[j], outputs, 1) THEN TRUE
    ELSE addressFilterMatched(addresses, outputs, j + 1)

\* lines 98-103: the scan of output.Assets().Policies(), from policy k on
RECURSIVE policyInAssets(_, _, _)
policyInAssets(filterPolicyId, assets, k) ==
    IF k > Len(assets) THEN FALSE
    ELSE IF HexEncode(assets[k].policyId) = filterPolicyId THEN TRUE
    ELSE policyInAssets(filterPolicyId, assets, k + 1)

\* lines 96-108: the scan of v.Outputs for one filterPolicyId
RECURSIVE policyFoundMatch(_, _, _)
policyFoundMatch(filterPolicyId, outputs, i) ==
    IF i > Len(outputs) THEN FALSE
    ELSE IF outputs[i].hasAssets /\ policyInAssets(filterPolicyId, outputs[i].assets, 1)
         THEN TRUE
    ELSE policyFoundMatch(filterPolicyId, outputs, i + 1)

\* lines 93-113: filterMatched of the policy-ID category
RECURSIVE policyFilterMatched(_, _, _)
policyFilterMatched(policyIds, outputs, j) ==
    IF j > Len(policyIds) THEN FALSE
    ELSE IF policyFoundMatch(policyIds[j], outputs, 1) THEN TRUE
    ELSE policyFilterMatched(policyIds, outputs, j + 1)

\* lines 127-132: every asset name of one policy is fingerprinted (no break)
RECURSIVE fingerprintInNames(_, _, _, _)
fingerprintInNames(filterAssetFingerprint, policyId, names, n) ==
    IF n > Len(names) THEN FALSE
    ELSE (NewAssetFingerprint(policyId, names[n]) = filterAssetFingerprint)
         \/ fingerprintInNames(filterAssetFingerprint, policyId, names, n + 1)

\* lines 126-136: the scan of the policies of one output
RECURSIVE fingerprintInAssets(_, _, _)
fingerprintInAssets(filterAssetFingerprint, assets, k) ==
    IF k > Len(assets) THEN FALSE
    ELSE IF fingerprintInNames(filterAssetFingerprint, assets[k].policyId,
                               assets[k].names, 1) THEN TRUE
    ELSE fingerprintInAssets(filterAssetFingerprint, assets, k + 1)

\* lines 124-141: the scan of v.Outputs for one filterAssetFingerprint
RECURSIVE fingerprintFoundMatch(_, _, _)
fingerprintFoundMatch(filterAssetFingerprint, outputs, i) ==
    IF i > Len(outputs) THEN FALSE
    ELSE IF outputs[i].hasAssets
            /\ fingerprintInAssets(filterAssetFingerprint, outputs[i].assets, 1)
         THEN TRUE
    ELSE fingerprintFoundMatch(filterAssetFingerprint, outputs, i + 1)

\* lines 121-146: filterMatched of the asset-fingerprint category
RECURSIVE fingerprintFilterMatched(_, _, _)
fingerprintFilterMatched(fingerprints, outputs, j) ==
    IF j > Len(fingerprints) THEN FALSE
    ELSE IF fingerprintFoundMatch(fingerprints[j], outputs, 1) THEN TRUE
    ELSE fingerprintFilterMatched(fingerprints, outputs, j + 1)

\* lines 60-90: TRUE when the address check lets the event go on
addressCheck(addresses, outputs) ==
    IF Len(addresses) > 0 THEN addressFilterMatched(addresses, outputs, 1) ELSE TRUE

\* lines 92-118
policyCheck(policyIds, outputs) ==
    IF Len(policyIds) > 0 THEN policyFilterMatched(policyIds, outputs, 1) ELSE TRUE

\* lines 120-151
fingerprintCheck(fingerprints, outputs) ==
    IF Len(fingerprints) > 0 THEN fingerprintFilterMatched(fingerprints, outputs, 1)
    ELSE TRUE

\* mutant of reachesSend: one matching category is enough
reachesSend_AnyCategory(e) ==
    IF e.kind = "chainsync.transaction"
    THEN \/ addressCheck(filterAddresses, e.outputs)
         \/ policyCheck(filterPolicyIds, e.outputs)
         \/ fingerprintCheck(filterAssetFingerprints, e.outputs)
    ELSE TRUE

\* lines 57-153: TRUE when the loop body reaches the send of line 153 for e
reachesSend(e) ==
    IF e.kind = "chainsync.transaction"
    THEN IF ~addressCheck(filterAddresses, e.outputs) THEN FALSE
         ELSE IF ~policyCheck(filterPolicyIds, e.outputs) THEN FALSE
         ELSE IF ~fingerprintCheck(filterAssetFingerprints, e.outputs) THEN FALSE
         ELSE TRUE
    ELSE TRUE

-----------------------------------------------------------------------------
\* The sync engine: bounds, chain data, events

\* highest slot of the sample chain
MaxSlot == 3
\* most transactions in one block of the sample chain
MaxTx == 5
\* protocol callbacks per run when only the protocol and the consumer act
MaxNotifs == 3
\* protocol callbacks per run when Stop and connection failures act too
MaxNotifsLife == 2

\* make(chan event.Event, 10)
EventChanCap == 10

Slots == 0..MaxSlot

\* hex.DecodeString (its error is discarded at line 216)
HexValue(d) == CHOOSE v \in 0..15 : HexDigits[v + 1] = d
RECURSIVE HexDecode(_)
HexDecode(str) ==
    IF Len(str) < 2 THEN <<>>
    ELSE <<HexValue(str[1]) * 16 + HexValue(str[2])>>
         \o HexDecode(SubSeq(str, 3, Len(str)))

\* ocommon.Point
ZeroPoint == [slot |-> 0, hash |-> <<>>]
PointAt(s) == [slot |-> s, hash |-> <<160 + s>>]

\* the sample chain: one block per slot; ledger.Block / ledger.BlockHeader as
\* the engine reads them (SlotNumber(), BlockNumber(), Hash(), Transactions())
TxCountAt(s) == IF s = 0 \/ s > MaxTx THEN 0 ELSE MaxTx + 1 - s
TransactionsAt(s) ==
    [i \in 1..TxCountAt(s) |-> [hash |-> 10 * s + (TxCountAt(s) - i)]]
BlockAt(s) == [slotNumber |-> s, blockNumber |-> 100 + s,
               hash |-> HexEncode(PointAt(s).hash),
               transactions |-> TransactionsAt(s)]
NoBlock == [slotNumber |-> 0, blockNumber |-> 0, hash |-> <<>>,
            transactions |-> <<>>]
\* lines 215-217: the point handleRollForward asks the block of, from a header
HexDecodePoint(v) == [slot |-> v.slotNumber, hash |-> HexDecode(v.hash)]
\* ochainsync.Tip
TipAt(s) == [point |-> PointAt(s)]
NoTip == [point |-> ZeroPoint]

\* event.New("chainsync.block", time.Now(), NewBlockEvent(block, c.includeCbor)),
\* without the timestamp and the optional raw encoding
NewBlockEvent(block) ==
    [kind |-> "chainsync.block", blockNumber |-> block.blockNumber,
     blockHash |-> block.hash, slotNumber |-> block.slotNumber,
     transactionHash |-> 0]

\* event.New("chainsync.transaction", ..., NewTransactionEvent(block, tx, ...))
NewTransactionEvent(block, tx) ==
    [kind |-> "chainsync.transaction", blockNumber |-> block.blockNumber,
     blockHash |-> block.hash, slotNumber |-> block.slotNumber,
     transactionHash |-> tx.hash]

\* event.New("chainsync.rollback", ..., NewRollbackEvent(point))
NewRollbackEvent(point) ==
    [kind |-> "chainsync.rollback", blockNumber |-> 0,
     blockHash |-> HexEncode(point.hash), slotNumber |-> point.slot,
     transactionHash |-> 0]

NoEngineEvent == [kind |-> "none", blockNumber |-> 0, blockHash |-> <<>>,
                  slotNumber |-> 0, transactionHash |-> 0]

ZeroStatus == [slotNumber |-> 0, blockNumber |-> 0, blockHash |-> <<>>,
               tipSlotNumber |-> 0, tipBlockHash |-> <<>>, tipReached |-> FALSE]

\* ouroboros.NetworkByName: a well-known network with public root, one without,
\* and NetworkInvalid for every other name
NetworkByName(name) ==
    IF name = "mainnet" THEN [valid |-> TRUE, publicRoot |-> TRUE]
    ELSE IF name = "devnet" THEN [valid |-> TRUE, publicRoot |-> FALSE]
    ELSE [valid |-> FALSE, publicRoot |-> FALSE]

\* the options the runs are made with
Option(network, address, socketPath, ntcTcp, bulkMode, intersectTip) ==
    [network |-> network, address |-> address, socketPath |-> socketPath,
     ntcTcp |-> ntcTcp, bulkMode |-> bulkMode, intersectTip |-> intersectTip]
OptionSamples ==
    {Option("", "node:3001", "", FALSE, TRUE, FALSE),
     Option("", "node:3001", "", FALSE, FALSE, FALSE),
     Option("", "node:3001", "", FALSE, TRUE, TRUE),
     Option("", "", "/node.socket", FALSE, TRUE, FALSE),
     Option("", "", "", FALSE, FALSE, FALSE),
     Option("testnet9", "node:3001", "", FALSE, TRUE, FALSE)}

\* mutant of setupConnectionParams: an unrecognized network name is passed over
\* when an address or a socket path comes with it
setupConnectionParams_NameUnchecked(o) ==
    LET byName == NetworkByName(o.network)
        rootDial == o.network # "" /\ byName.publicRoot
    IN IF o.address # ""
       THEN [err |-> "", dialFamily |-> "tcp", useNtn |-> ~o.ntcTcp]
       ELSE IF o.socketPath # ""
       THEN [err |-> "", dialFamily |-> "unix", useNtn |-> FALSE]
       ELSE IF o.network # "" /\ ~byName.valid
       THEN [err |-> "unknown network", dialFamily |-> "", useNtn |-> FALSE]
       ELSE IF ~rootDial
       THEN [err |-> "you must specify a host/port, UNIX socket path, or well-known network name",
             dialFamily |-> "", useNtn |-> FALSE]
       ELSE [err |-> "", dialFamily |-> "tcp", useNtn |-> TRUE]

\* setupConnection, lines 132-164: the error it returns ("" for none) and the
\* dial parameters
setupConnectionParams(o) ==
    LET byName == NetworkByName(o.network)
        rootDial == o.network # "" /\ byName.publicRoot
    IN IF o.network # "" /\ ~byName.valid
       THEN [err |-> "unknown network", dialFamily |-> "", useNtn |-> FALSE]
       ELSE IF o.address # ""
       THEN [err |-> "", dialFamily |-> "tcp", useNtn |-> ~o.ntcTcp]
       ELSE IF o.socketPath # ""
       THEN [err |-> "", dialFamily |-> "unix", useNtn |-> FALSE]
       ELSE IF ~rootDial
       THEN [err |-> "you must specify a host/port, UNIX socket path, or well-known network name",
             dialFamily |-> "", useNtn |-> FALSE]
       ELSE [err |-> "", dialFamily |-> "tcp", useNtn |-> TRUE]

\* mutant of updateStatus: TipReached is recomputed by every update
updateStatus_Recomputed(slotNumber, blockNumber, blockHash, tipSlotNumber, tipBlockHash) ==
    [slotNumber |-> slotNumber, blockNumber |-> blockNumber,
     blockHash |-> blockHash, tipSlotNumber |-> tipSlotNumber,
     tipBlockHash |-> tipBlockHash,
     tipReached |-> /\ slotNumber > bulkRangeEnd.slot
                    /\ status.slotNumber > 0
                    /\ slotNumber >= status.tipSlotNumber]

\* mutant of updateStatus: the bulk range's end slot itself counts as past it
updateStatus_AtRangeEnd(slotNumber, blockNumber, blockHash, tipSlotNumber, tipBlockHash) ==
    [slotNumber |-> slotNumber, blockNumber |-> blockNumber,
     blockHash |-> blockHash, tipSlotNumber |-> tipSlotNumber,
     tipBlockHash |-> tipBlockHash,
     tipReached |-> IF ~status.tipReached
                    THEN IF slotNumber >= bulkRangeEnd.slot
                         THEN IF status.slotNumber > 0
                                 /\ slotNumber >= status.tipSlotNumber
                              THEN TRUE ELSE status.tipReached
                         ELSE status.tipReached
                    ELSE status.tipReached]

\* mutant of updateStatus: the slot is compared with the tip passed to this
\* update instead of the tip the previous update recorded
updateStatus_AgainstNewTip(slotNumber, blockNumber, blockHash, tipSlotNumber, tipBlockHash) ==
    [slotNumber |-> slotNumber, blockNumber |-> blockNumber,
     blockHash |-> blockHash, tipSlotNumber |-> tipSlotNumber,
     tipBlockHash |-> tipBlockHash,
     tipReached |-> IF ~status.tipReached
                    THEN IF slotNumber > bulkRangeEnd.slot
                         THEN IF status.slotNumber > 0
                                 /\ slotNumber >= tipSlotNumber
                              THEN TRUE ELSE status.tipReached
                         ELSE status.tipReached
                    ELSE status.tipReached]

\* updateStatus, lines 249-264: the new *c.status
updateStatus(slotNumber, blockNumber, blockHash, tipSlotNumber, tipBlockHash) ==
    [slotNumber |-> slotNumber, blockNumber |-> blockNumber,
     blockHash |-> blockHash, tipSlotNumber |-> tipSlotNumber,
     tipBlockHash |-> tipBlockHash,
     tipReached |-> IF ~status.tipReached
                    THEN IF slotNumber > bulkRangeEnd.slot
                         THEN IF status.slotNumber > 0
                                 /\ slotNumber >= status.tipSlotNumber
                              THEN TRUE ELSE status.tipReached
                         ELSE status.tipReached
                    ELSE status.tipReached]

\* groups of engine variables
optionVars == <<options, notifLimit>>
connVars == <<oConn, connErrors, connErrorsClosed>>
rangeVars == <<bulkRangeStart, bulkRangeEnd>>
sendVars == <<eventChan, lastSent, prevSent, blockEventsSent>>
errorVars == <<errorChanClosed, errorsReceived, forwarderPc, forwarderErr>>
startVars == <<startPc, startErr, intersectPoints>>
handlerVars == <<hPc, hBlock, hPoint, hTip, hTx>>
protocolVars == <<syncCalls, blockRangeCalls, bulkNextSlot, notifs, blocksFetched>>
statusVars == <<status, statusUpdates>>
stopVars == <<eventChanClosed, engineStopPc>>

\* New, lines 62-73, with the options applied (WithIntersectPoints among them)
EngineNewWith(optionSet, pointSets, limit) ==
    /\ options \in optionSet
    /\ notifLimit = limit
    /\ intersectPoints \in pointSets
    /\ oConn = [state |-> "nil", useNtn |-> FALSE]
    /\ connErrors = <<>>
    /\ connErrorsClosed = FALSE
    /\ bulkRangeStart = ZeroPoint
    /\ bulkRangeEnd = ZeroPoint
    /\ status = ZeroStatus
    /\ eventChan = <<>>
    /\ eventChanClosed = FALSE
    /\ errorChanClosed = FALSE
    /\ errorsReceived = <<>>
    /\ startPc = "new"
    /\ startErr = ""
    /\ hPc = "idle"
    /\ hBlock = NoBlock
    /\ hPoint = ZeroPoint
    /\ hTip = NoTip
    /\ hTx = 0
    /\ forwarderPc = "none"
    /\ forwarderErr = ""
    /\ engineStopPc = "none"
    /\ syncCalls = <<>>
    /\ blockRangeCalls = <<>>
    /\ bulkNextSlot = 0
    /\ notifs = 0
    /\ lastSent = NoEngineEvent
    /\ prevSent = NoEngineEvent
    /\ blockEventsSent = 0
    /\ blocksFetched = 0
    /\ statusUpdates = 0

\* New without configured intersect points
EngineNew(optionSet, limit) == EngineNewWith(optionSet, {<<>>}, limit)

-----------------------------------------------------------------------------
\* The filter stage: New, Start, Stop and the code around them

NoEvent == [kind |-> "none", timestamp |-> 0, slotNumber |-> 0,
            transactionHash |-> 0, outputs |-> <<>>]

\* configurations and upstream patterns of the pipeline runs
PipeEvents == {BlockEvt, TxEvt(2, <<OutPayStake>>), TxEvt(2, <<OutEnterprise>>)}
PipeFeeds == {<<a, b>> : a \in PipeEvents, b \in PipeEvents}
PipeAddressFilters == {<<>>, <<StakeKey1>>}

\* New (lines 35-45) with the filter options applied, then the upstream's plan
FilterNew(addressSets, policySets, fingerprintSets, feeds, limit) ==
    /\ filterAddresses \in addressSets
    /\ filterPolicyIds \in policySets
    /\ filterAssetFingerprints \in fingerprintSets
    /\ inputChan = <<>>
    /\ inputChanClosed = FALSE
    /\ outputChan = <<>>
    /\ outputChanClosed = FALSE
    /\ filterErrorChanClosed = FALSE
    /\ loopPc = "none"
    /\ evt = NoEvent
    /\ filterStopPc = "none"
    /\ feed \in feeds
    /\ feedLimit = limit
    /\ inLog = <<>>
    /\ outLog = <<>>
    /\ lastTaken = NoEvent
    /\ lastForwarded = FALSE
    /\ upstreamClosed = FALSE

\* no engine beside the filter stage
EngineUnused == EngineNew({Option("", "", "", FALSE, FALSE, FALSE)}, 0)

FilterInit ==
    /\ panic = ""
    /\ EngineUnused
    /\ \/ FilterNew(AddressFilterSamples, PolicyFilterSamples,
                    FingerprintFilterSamples,
                    {<<e>> : e \in EventSamples}, MaxFeedWide)
       \/ FilterNew(PipeAddressFilters, {<<>>}, {<<>>}, PipeFeeds, MaxFeed)

\* Start (lines 48-49, 156-157): spawns the loop
FilterStart ==
    /\ panic = ""
    /\ UNCHANGED engineVars
    /\ loopPc = "none"
    /\ loopPc' = "recv"
    /\ UNCHANGED <<filterAddresses, filterPolicyIds, filterAssetFingerprints,
                   inputChan, inputChanClosed, outputChan, outputChanClosed,
                   filterErrorChanClosed, evt, filterStopPc, feed, feedLimit,
                   inLog, outLog, lastTaken, lastForwarded, upstreamClosed, panic>>

\* the upstream stage sends its next event on InputChan() (lines 172-175)
UpstreamSend ==
    /\ panic = ""
    /\ UNCHANGED engineVars
    /\ ~inputChanClosed
    /\ Len(inLog) < feedLimit
    /\ Len(inputChan) < FilterChanCap
    /\ LET next == Len(inLog) + 1
           e == [feed[IF next < Len(feed) THEN next ELSE Len(feed)]
                     EXCEPT !.timestamp = next]
       IN /\ inputChan' = Append(inputChan, e)
          /\ inLog' = Append(inLog, e)
    /\ UNCHANGED <<filterAddresses, filterPolicyIds, filterAssetFingerprints,
                   inputChanClosed, outputChan, outputChanClosed,
                   filterErrorChanClosed, loopPc, evt, filterStopPc, feed,
                   feedLimit, outLog, lastTaken, lastForwarded, upstreamClosed,
                   panic>>

\* the upstream owner closes the inbound queue it was handed (lines 172-175)
UpstreamClose ==
    /\ panic = ""
    /\ UNCHANGED engineVars
    /\ ~inputChanClosed
    /\ inputChanClosed' = TRUE
    /\ upstreamClosed' = TRUE
    /\ UNCHANGED <<filterAddresses, filterPolicyIds, filterAssetFingerprints,
                   inputChan, outputChan, outputChanClosed,
                   filterErrorChanClosed, loopPc, evt, filterStopPc, feed,
                   feedLimit, inLog, outLog, lastTaken, lastForwarded, panic>>

\* lines 52-152: the loop receives an event and filters it
LoopRecvEvent ==
    /\ panic = ""
    /\ UNCHANGED engineVars
    /\ loopPc = "recv"
    /\ inputChan # <<>>
    /\ LET e == Head(inputChan)
       IN /\ inputChan' = Tail(inputChan)
          /\ lastTaken' = e
          /\ lastForwarded' = reachesSend(e)
          /\ IF reachesSend(e)
             THEN loopPc' = "send" /\ evt' = e
             ELSE loopPc' = "recv" /\ evt' = NoEvent
    /\ UNCHANGED <<filterAddresses, filterPolicyIds, filterAssetFingerprints,
                   inputChanClosed, outputChan, outputChanClosed,
                   filterErrorChanClosed, filterStopPc, feed, feedLimit,
                   inLog, outLog, upstreamClosed, panic>>

\* mutant of LoopRecvClosed: the loop closes the stage's outputs as it returns
LoopRecvClosed_ClosesOutputs ==
    /\ panic = ""
    /\ UNCHANGED engineVars
    /\ loopPc = "recv"
    /\ inputChan = <<>>
    /\ inputChanClosed
    /\ loopPc' = "done"
    /\ outputChanClosed' = TRUE
    /\ filterErrorChanClosed' = TRUE
    /\ UNCHANGED <<filterAddresses, filterPolicyIds, filterAssetFingerprints,
                   inputChan, inputChanClosed, outputChan,
                   evt, filterStopPc, feed, feedLimit,
                   inLog, outLog, lastTaken, lastForwarded, upstreamClosed, panic>>

\* lines 52-56: the receive reports the closed, drained channel; the loop returns
LoopRecvClosed ==
    /\ panic = ""
    /\ UNCHANGED engineVars
    /\ loopPc = "recv"
    /\ inputChan = <<>>
    /\ inputChanClosed
    /\ loopPc' = "done"
    /\ UNCHANGED <<filterAddresses, filterPolicyIds, filterAssetFingerprints,
                   inputChan, inputChanClosed, outputChan, outputChanClosed,
                   filterErrorChanClosed, evt, filterStopPc, feed, feedLimit,
                   inLog, outLog, lastTaken, lastForwarded, upstreamClosed, panic>>

\* mutant of LoopSend: a send that gives up on a full queue instead of blocking
LoopSend_DropWhenFull ==
    /\ panic = ""
    /\ UNCHANGED engineVars
    /\ loopPc = "send"
    /\ IF outputChanClosed
       THEN /\ panic' = "send on closed channel"
            /\ UNCHANGED <<outputChan, outLog, loopPc, evt>>
       ELSE /\ IF Len(outputChan) < FilterChanCap
               THEN /\ outputChan' = Append(outputChan, evt)
                    /\ outLog' = Append(outLog, evt)
               ELSE UNCHANGED <<outputChan, outLog>>
            /\ loopPc' = "recv"
            /\ evt' = NoEvent
            /\ UNCHANGED panic
    /\ UNCHANGED <<filterAddresses, filterPolicyIds, filterAssetFingerprints,
                   inputChan, inputChanClosed, outputChanClosed,
                   filterErrorChanClosed, filterStopPc, feed, feedLimit,
                   inLog, lastTaken, lastForwarded, upstreamClosed>>

\* line 153: c.outputChan <- evt (blocks while the queue is full)
LoopSend ==
    /\ panic = ""
    /\ UNCHANGED engineVars
    /\ loopPc = "send"
    /\ IF outputChanClosed
       THEN /\ panic' = "send on closed channel"
            /\ UNCHANGED <<outputChan, outLog, loopPc, evt>>
       ELSE /\ Len(outputChan) < FilterChanCap
            /\ outputChan' = Append(outputChan, evt)
            /\ outLog' = Append(outLog, evt)
            /\ loopPc' = "recv"
            /\ evt' = NoEvent
            /\ UNCHANGED panic
    /\ UNCHANGED <<filterAddresses, filterPolicyIds, filterAssetFingerprints,
                   inputChan, inputChanClosed, outputChanClosed,
                   filterErrorChanClosed, filterStopPc, feed, feedLimit,
                   inLog, lastTaken, lastForwarded, upstreamClosed>>

\* the downstream stage receives from OutputChan() (lines 177-180)
DownstreamRecv ==
    /\ panic = ""
    /\ UNCHANGED engineVars
    /\ outputChan # <<>>
    /\ outputChan' = Tail(outputChan)
    /\ UNCHANGED <<filterAddresses, filterPolicyIds, filterAssetFingerprints,
                   inputChan, inputChanClosed, outputChanClosed,
                   filterErrorChanClosed, loopPc, evt, filterStopPc, feed,
                   feedLimit, inLog, outLog, lastTaken, lastForwarded,
                   upstreamClosed, panic>>

\* Stop, line 161: close(c.inputChan)
FilterStopCloseInput ==
    /\ panic = ""
    /\ UNCHANGED engineVars
    /\ filterStopPc = "none"
    /\ IF inputChanClosed
       THEN /\ panic' = "close of closed channel"
            /\ UNCHANGED <<inputChanClosed, filterStopPc>>
       ELSE /\ inputChanClosed' = TRUE
            /\ filterStopPc' = "input_closed"
            /\ UNCHANGED panic
    /\ UNCHANGED <<filterAddresses, filterPolicyIds, filterAssetFingerprints,
                   inputChan, outputChan, outputChanClosed,
                   filterErrorChanClosed, loopPc, evt, feed, feedLimit,
                   inLog, outLog, lastTaken, lastForwarded, upstreamClosed>>

\* Stop, line 162: close(c.outputChan)
FilterStopCloseOutput ==
    /\ panic = ""
    /\ UNCHANGED engineVars
    /\ filterStopPc = "input_closed"
    /\ outputChanClosed' = TRUE
    /\ filterStopPc' = "output_closed"
    /\ UNCHANGED <<filterAddresses, filterPolicyIds, filterAssetFingerprints,
                   inputChan, inputChanClosed, outputChan,
                   filterErrorChanClosed, loopPc, evt, feed, feedLimit,
                   inLog, outLog, lastTaken, lastForwarded, upstreamClosed, panic>>

\* Stop, lines 163-164: close(c.errorChan); return nil
FilterStopCloseError ==
    /\ panic = ""
    /\ UNCHANGED engineVars
    /\ filterStopPc = "output_closed"
    /\ filterErrorChanClosed' = TRUE
    /\ filterStopPc' = "done"
    /\ UNCHANGED <<filterAddresses, filterPolicyIds, filterAssetFingerprints,
                   inputChan, inputChanClosed, outputChan, outputChanClosed,
                   loopPc, evt, feed, feedLimit,
                   inLog, outLog, lastTaken, lastForwarded, upstreamClosed, panic>>

FilterNext ==
    \/ FilterStart
    \/ UpstreamSend
    \/ UpstreamClose
    \/ LoopRecvEvent
    \/ LoopRecvClosed
    \/ LoopSend
    \/ DownstreamRecv
    \/ FilterStopCloseInput
    \/ FilterStopCloseOutput
    \/ FilterStopCloseError

FilterSpec == FilterInit /\ [][FilterNext]_vars

\* the goroutine of Start runs whenever it can; a Stop that has begun runs on
FilterFairSpec ==
    /\ FilterSpec
    /\ WF_vars(LoopRecvEvent \/ LoopRecvClosed \/ LoopSend)
    /\ WF_vars(FilterStopCloseOutput \/ FilterStopCloseError)

-----------------------------------------------------------------------------
\* The filter predicate as the specification words it

IsTransaction(e) == e.kind = "chainsync.transaction"

AddressValueMatches(a, o) ==
    \/ o.address = a
    \/ HasPrefix(a, StakePrefix) /\ o.stakeAddress # <<>> /\ o.stakeAddress = a

PolicyValueMatches(p, o) ==
    o.hasAssets /\ \E k \in 1..Len(o.assets) : HexEncode(o.assets[k].policyId) = p

FingerprintValueMatches(f, o) ==
    o.hasAssets /\ \E k \in 1..Len(o.assets) : \E n \in 1..Len(o.assets[k].names) :
        NewAssetFingerprint(o.assets[k].policyId, o.assets[k].names[n]) = f

AddressCategory(e) ==
    \E j \in 1..Len(filterAddresses) : \E i \in 1..Len(e.outputs) :
        AddressValueMatches(filterAddresses[j], e.outputs[i])
PolicyCategory(e) ==
    \E j \in 1..Len(filterPolicyIds) : \E i \in 1..Len(e.outputs) :
        PolicyValueMatches(filterPolicyIds[j], e.outputs[i])
FingerprintCategory(e) ==
    \E j \in 1..Len(filterAssetFingerprints) : \E i \in 1..Len(e.outputs) :
        FingerprintValueMatches(filterAssetFingerprints[j], e.outputs[i])

PassesFilter(e) ==
    \/ ~IsTransaction(e)
    \/ /\ filterAddresses # <<>> => AddressCategory(e)
       /\ filterPolicyIds # <<>> => PolicyCategory(e)
       /\ filterAssetFingerprints # <<>> => FingerprintCategory(e)

\* the events the loop has received so far
Taken == SubSeq(inLog, 1, Len(inLog) - Len(inputChan))

\* C5: the loop decides to forward the event it received iff the event is no
\* transaction or matches every category with a non-empty set (a category
\* matching when some configured value matches some output); what it forwards
\* is the received event itself; with all sets empty everything is forwarded,
\* and a transaction matching the addresses but no configured policy is dropped.
C5_ForwardIffPasses ==
    /\ lastTaken # NoEvent => (lastForwarded <=> PassesFilter(lastTaken))
    /\ loopPc = "send" => evt = lastTaken
    /\ \A i \in 1..Len(outLog) : \E j \in 1..Len(inLog) : outLog[i] = inLog[j]
    /\ (/\ lastTaken # NoEvent
        /\ filterAddresses = <<>>
        /\ filterPolicyIds = <<>>
        /\ filterAssetFingerprints = <<>>) => lastForwarded
    /\ (/\ IsTransaction(lastTaken)
        /\ filterPolicyIds # <<>>
        /\ ~PolicyCategory(lastTaken)) => ~lastForwarded

C5_Witness ==
    /\ IsTransaction(lastTaken)
    /\ filterAddresses # <<>>
    /\ filterPolicyIds # <<>>
    /\ AddressCategory(lastTaken)
    /\ ~PolicyCategory(lastTaken)
    /\ ~lastForwarded
    /\ loopPc = "recv"

\* C6: with a non-empty address filter a transaction passes the address
\* category iff some configured string equals some output's address string, or
\* has stake form and equals that output's derived stake address (an output
\* without a stake address never matching by that rule).
C6_AddressCategory ==
    (IsTransaction(lastTaken) /\ filterAddresses # <<>>) =>
        /\ addressCheck(filterAddresses, lastTaken.outputs)
               <=> AddressCategory(lastTaken)
        /\ lastForwarded => AddressCategory(lastTaken)
        /\ (filterPolicyIds = <<>> /\ filterAssetFingerprints = <<>>)
               => (lastForwarded <=> AddressCategory(lastTaken))

C6_Witness ==
    /\ IsTransaction(lastTaken)
    /\ filterAddresses = <<StakeKey1>>
    /\ \A i \in 1..Len(lastTaken.outputs) : lastTaken.outputs[i].address # StakeKey1
    /\ \E i \in 1..Len(lastTaken.outputs) : lastTaken.outputs[i].stakeAddress = StakeKey1
    /\ \E i \in 1..Len(lastTaken.outputs) : lastTaken.outputs[i].stakeAddress = <<>>
    /\ lastForwarded
    /\ outLog # <<>> /\ outLog[Len(outLog)] = lastTaken

\* C7: while the stage is not stopped, what it has written to the outbound
\* queue (plus the event it is about to write) is exactly the received events
\* that pass the filter, in their order, each once; the queue delivers them in
\* that order.
C7_OrderPreserved ==
    (filterStopPc = "none" /\ panic = "") =>
        /\ outLog \o (IF loopPc = "send" THEN <<evt>> ELSE <<>>)
               = SelectSeq(Taken, PassesFilter)
        /\ outputChan = SubSeq(outLog, Len(outLog) - Len(outputChan) + 1, Len(outLog))
        /\ inputChan = SubSeq(inLog, Len(inLog) - Len(inputChan) + 1, Len(inLog))

\* the loop is blocked on the full outbound queue, after having dropped an event
C7_Witness ==
    /\ filterStopPc = "none"
    /\ panic = ""
    /\ loopPc = "send"
    /\ Len(outputChan) = FilterChanCap
    /\ Len(outLog) >= FilterChanCap
    /\ Len(Taken) > Len(outLog) + 1

-----------------------------------------------------------------------------
\* The sync engine: Start, the protocol callbacks, Stop

\* what Start leaves behind
StartResult(conn, forwarder, pc, err, points, rangeStart, rangeEnd, syncs, ranges, nextSlot) ==
    /\ oConn' = conn
    /\ forwarderPc' = forwarder
    /\ startPc' = pc
    /\ startErr' = err
    /\ intersectPoints' = points
    /\ bulkRangeStart' = rangeStart
    /\ bulkRangeEnd' = rangeEnd
    /\ syncCalls' = syncs
    /\ blockRangeCalls' = ranges
    /\ bulkNextSlot' = nextSlot

\* one ChainSync().Client.Sync request: its intersect points, the caller, the
\* block the caller was handling, that block's events enqueued so far, the
\* status slot at the time, and whether the request succeeded
SyncCall(points, by, slot, sent, statusSlot, ok) ==
    [points |-> points, by |-> by, slot |-> slot, sent |-> sent,
     statusSlot |-> statusSlot, ok |-> ok]

\* chain-sync has been started and delivers notifications
SyncRunning == \E i \in 1..Len(syncCalls) : syncCalls[i].ok

\* mutant of Start: the bulk path is taken whatever kind of connection was set up
Start_BulkOnAnyConnection ==
    /\ panic = ""
    /\ startPc = "new"
    /\ UNCHANGED <<filterVars, optionVars, connErrors, connErrorsClosed, sendVars,
                   errorChanClosed, errorsReceived, forwarderErr, handlerVars,
                   notifs, blocksFetched, statusVars, stopVars, panic>>
    /\ LET p == setupConnectionParams(options)
           open == [state |-> "open", useNtn |-> p.useNtn]
       IN IF p.err # ""
          THEN StartResult(oConn, "none", "failed", p.err, intersectPoints,
                           ZeroPoint, ZeroPoint, <<>>, <<>>, 0)
          ELSE \E dialOk \in BOOLEAN :
            IF ~dialOk
            THEN StartResult(oConn, "none", "failed", "dial failed", intersectPoints,
                             ZeroPoint, ZeroPoint, <<>>, <<>>, 0)
            ELSE IF options.bulkMode /\ ~options.intersectTip
            THEN \E a \in Slots, b \in Slots :
                   /\ a <= b
                   /\ StartResult(open, "recv", "started", "",
                                  intersectPoints, PointAt(a), PointAt(b), <<>>,
                                  <<[from |-> intersectPoints,
                                     start |-> PointAt(a), end |-> PointAt(b),
                                     ok |-> TRUE]>>,
                                  a)
            ELSE \E t \in {MaxSlot} :
                   LET points == IF options.intersectTip
                                 THEN <<TipAt(t).point>>
                                 ELSE intersectPoints
                   IN StartResult(open, "recv", "started", "",
                                  points, ZeroPoint, ZeroPoint,
                                  <<SyncCall(points, "Start", 0, 0,
                                             status.slotNumber, TRUE)>>,
                                  <<>>, 0)

\* Start, lines 76-106, with setupConnection, lines 131-200; the node's answers
\* (dial, available range, current tip, request results) are chosen freely
Start ==
    /\ panic = ""
    /\ startPc = "new"
    /\ UNCHANGED <<filterVars, optionVars, connErrors, connErrorsClosed, sendVars,
                   errorChanClosed, errorsReceived, forwarderErr, handlerVars,
                   notifs, blocksFetched, statusVars, stopVars, panic>>
    /\ LET p == setupConnectionParams(options)
           open == [state |-> "open", useNtn |-> p.useNtn]
       IN IF p.err # ""
          THEN StartResult(oConn, "none", "failed", p.err, intersectPoints,
                           ZeroPoint, ZeroPoint, <<>>, <<>>, 0)
          ELSE \E dialOk \in BOOLEAN :
            IF ~dialOk
            THEN StartResult(oConn, "none", "failed", "dial failed", intersectPoints,
                             ZeroPoint, ZeroPoint, <<>>, <<>>, 0)
            ELSE IF options.bulkMode /\ ~options.intersectTip /\ open.useNtn
            THEN \E rangeOk \in BOOLEAN, a \in Slots, b \in Slots, fetchOk \in BOOLEAN :
                   /\ a <= b
                   /\ IF ~rangeOk
                      THEN /\ a = 0 /\ b = 0 /\ fetchOk
                           /\ StartResult(open, "recv", "failed", "range query failed",
                                          intersectPoints, ZeroPoint, ZeroPoint,
                                          <<>>, <<>>, 0)
                      ELSE StartResult(open, "recv",
                                       IF fetchOk THEN "started" ELSE "failed",
                                       IF fetchOk THEN "" ELSE "range fetch failed",
                                       intersectPoints, PointAt(a), PointAt(b), <<>>,
                                       <<[from |-> intersectPoints,
                                          start |-> PointAt(a), end |-> PointAt(b),
                                          ok |-> fetchOk]>>,
                                       a)
            ELSE \E tipOk \in BOOLEAN, t \in {MaxSlot}, syncOk \in BOOLEAN :
                   IF options.intersectTip /\ ~tipOk
                   THEN /\ syncOk
                        /\ StartResult(open, "recv", "failed", "tip query failed",
                                       intersectPoints, ZeroPoint, ZeroPoint,
                                       <<>>, <<>>, 0)
                   ELSE /\ ~options.intersectTip => tipOk
                        /\ options.intersectTip => tipOk
                        /\ LET points == IF options.intersectTip
                                         THEN <<TipAt(t).point>>
                                         ELSE intersectPoints
                           IN StartResult(open, "recv",
                                          IF syncOk THEN "started" ELSE "failed",
                                          IF syncOk THEN "" ELSE "sync failed",
                                          points, ZeroPoint, ZeroPoint,
                                          <<SyncCall(points, "Start", 0, 0,
                                                     status.slotNumber, syncOk)>>,
                                          <<>>, 0)

\* c.eventChan <- e on the closed channel
SendPanics ==
    /\ panic' = "send on closed eventChan"
    /\ UNCHANGED engineVars

\* c.eventChan <- e completes
Sent(e) ==
    /\ Len(eventChan) < EventChanCap
    /\ eventChan' = Append(eventChan, e)
    /\ prevSent' = lastSent
    /\ lastSent' = e
    /\ blockEventsSent' = blockEventsSent + (IF e.kind = "chainsync.block" THEN 1 ELSE 0)
    /\ UNCHANGED panic

\* the protocol layers call back only on a started engine with a live connection
\* and one callback at a time
MayCallBack ==
    /\ panic = ""
    /\ startPc = "started"
    /\ oConn.state = "open"
    /\ hPc = "idle"
    /\ notifs < notifLimit

\* the handler returned err: the protocol fails and the connection reports it
HandlerFails(err) ==
    /\ oConn' = [oConn EXCEPT !.state = "failed"]
    /\ connErrors' = Append(connErrors, err)
    /\ UNCHANGED connErrorsClosed

\* the block-fetch protocol delivers the next block of the requested range:
\* first the block at bulkRangeStart, then blocks of rising slots up to
\* bulkRangeEnd (line 232, entry of handleBlockFetchBlock)
BlockFetchBlock ==
    /\ MayCallBack
    /\ blockRangeCalls # <<>>
    /\ \E s \in bulkNextSlot..bulkRangeEnd.slot :
         /\ blocksFetched = 0 => s = bulkRangeStart.slot
         /\ hBlock' = BlockAt(s)
         /\ bulkNextSlot' = s + 1
    /\ hPc' = "bf_block"
    /\ notifs' = notifs + 1
    /\ blocksFetched' = blocksFetched + 1
    /\ UNCHANGED <<filterVars, optionVars, connVars, rangeVars, sendVars, errorVars,
                   startVars, hPoint, hTip, hTx, syncCalls, blockRangeCalls,
                   statusVars, stopVars, panic>>

\* handleBlockFetchBlock, lines 233-234
handleBlockFetchBlock_Block ==
    /\ panic = ""
    /\ hPc = "bf_block"
    /\ UNCHANGED filterVars
    /\ IF eventChanClosed THEN SendPanics
       ELSE /\ Sent(NewBlockEvent(hBlock))
            /\ hPc' = "bf_tx"
            /\ hTx' = 1
            /\ UNCHANGED <<optionVars, connVars, rangeVars, errorVars, startVars,
                           hBlock, hPoint, hTip, protocolVars, statusVars, stopVars>>

\* handleBlockFetchBlock, lines 235-238: one turn of the loop
handleBlockFetchBlock_Tx ==
    /\ panic = ""
    /\ hPc = "bf_tx"
    /\ hTx <= Len(hBlock.transactions)
    /\ UNCHANGED filterVars
    /\ IF eventChanClosed THEN SendPanics
       ELSE /\ Sent(NewTransactionEvent(hBlock, hBlock.transactions[hTx]))
            /\ hTx' = hTx + 1
            /\ UNCHANGED <<optionVars, connVars, rangeVars, errorVars, startVars,
                           hPc, hBlock, hPoint, hTip, protocolVars, statusVars,
                           stopVars>>

\* mutant of handleBlockFetchBlock_Finish: the switch to chain-sync is requested
\* from the range's first block on, and from its start point
handleBlockFetchBlock_Finish_FromStart ==
    /\ panic = ""
    /\ hPc = "bf_tx"
    /\ hTx > Len(hBlock.transactions)
    /\ status' = updateStatus(hBlock.slotNumber, hBlock.blockNumber, hBlock.hash,
                              bulkRangeEnd.slot, HexEncode(bulkRangeEnd.hash))
    /\ statusUpdates' = statusUpdates + 1
    /\ IF hBlock.slotNumber >= bulkRangeStart.slot
       THEN \E ok \in BOOLEAN :
              /\ syncCalls' = Append(syncCalls,
                     SyncCall(<<bulkRangeStart>>, "handleBlockFetchBlock",
                              hBlock.slotNumber, hTx, status'.slotNumber, ok))
              /\ IF ok THEN UNCHANGED connVars ELSE HandlerFails("sync failed")
       ELSE UNCHANGED <<syncCalls, connVars>>
    /\ hPc' = "idle"
    /\ hBlock' = NoBlock
    /\ hTx' = 0
    /\ UNCHANGED <<filterVars, optionVars, rangeVars, sendVars, errorVars, startVars,
                   hPoint, hTip, blockRangeCalls, bulkNextSlot, notifs,
                   blocksFetched, stopVars, panic>>

\* mutant of handleBlockFetchBlock_Finish: the status update of a fetched block
\* records a tip ahead of the bulk range's end
handleBlockFetchBlock_Finish_TipAhead ==
    /\ panic = ""
    /\ hPc = "bf_tx"
    /\ hTx > Len(hBlock.transactions)
    /\ status' = updateStatus(hBlock.slotNumber, hBlock.blockNumber, hBlock.hash,
                              MaxSlot + 1, HexEncode(bulkRangeEnd.hash))
    /\ statusUpdates' = statusUpdates + 1
    /\ IF hBlock.slotNumber = bulkRangeEnd.slot
       THEN \E ok \in BOOLEAN :
              /\ syncCalls' = Append(syncCalls,
                     SyncCall(<<bulkRangeEnd>>, "handleBlockFetchBlock",
                              hBlock.slotNumber, hTx, status'.slotNumber, ok))
              /\ IF ok THEN UNCHANGED connVars ELSE HandlerFails("sync failed")
       ELSE UNCHANGED <<syncCalls, connVars>>
    /\ hPc' = "idle"
    /\ hBlock' = NoBlock
    /\ hTx' = 0
    /\ UNCHANGED <<filterVars, optionVars, rangeVars, sendVars, errorVars, startVars,
                   hPoint, hTip, blockRangeCalls, bulkNextSlot, notifs,
                   blocksFetched, stopVars, panic>>

\* handleBlockFetchBlock, lines 239-246: after the loop
handleBlockFetchBlock_Finish ==
    /\ panic = ""
    /\ hPc = "bf_tx"
    /\ hTx > Len(hBlock.transactions)
    /\ status' = updateStatus(hBlock.slotNumber, hBlock.blockNumber, hBlock.hash,
                              bulkRangeEnd.slot, HexEncode(bulkRangeEnd.hash))
    /\ statusUpdates' = statusUpdates + 1
    /\ IF hBlock.slotNumber = bulkRangeEnd.slot
       THEN \E ok \in BOOLEAN :
              /\ syncCalls' = Append(syncCalls,
                     SyncCall(<<bulkRangeEnd>>, "handleBlockFetchBlock",
                              hBlock.slotNumber, hTx, status'.slotNumber, ok))
              /\ IF ok THEN UNCHANGED connVars ELSE HandlerFails("sync failed")
       ELSE UNCHANGED <<syncCalls, connVars>>
    /\ hPc' = "idle"
    /\ hBlock' = NoBlock
    /\ hTx' = 0
    /\ UNCHANGED <<filterVars, optionVars, rangeVars, sendVars, errorVars, startVars,
                   hPoint, hTip, blockRangeCalls, bulkNextSlot, notifs,
                   blocksFetched, stopVars, panic>>

\* mutant of RollForward: after a failed fetch the block event is still built,
\* from the header, and enqueued before the error is returned
RollForward_EmitsOnFailedFetch ==
    /\ MayCallBack
    /\ SyncRunning
    /\ \E s \in Slots, t \in Slots, fetchOk \in BOOLEAN :
         IF ~oConn.useNtn
         THEN /\ fetchOk
              /\ hTip' = TipAt(t)
              /\ hBlock' = BlockAt(s)
              /\ hPc' = "rf_block"
              /\ UNCHANGED <<connVars, sendVars, panic>>
         ELSE IF fetchOk
         THEN /\ hTip' = TipAt(t)
              /\ hBlock' = BlockAt(HexDecodePoint(BlockAt(s)).slot)
              /\ hPc' = "rf_header_block"
              /\ UNCHANGED <<connVars, sendVars, panic>>
         ELSE /\ hTip' = hTip
              /\ hBlock' = NoBlock
              /\ hPc' = "idle"
              /\ Sent(NewBlockEvent(BlockAt(s)))
              /\ HandlerFails("block fetch failed")
    /\ notifs' = notifs + 1
    /\ UNCHANGED <<filterVars, optionVars, rangeVars, errorVars, startVars,
                   hPoint, hTx, syncCalls, blockRangeCalls, bulkNextSlot,
                   blocksFetched, statusVars, stopVars>>

\* the chain-sync protocol reports a new block (line 208, entry of
\* handleRollForward): a full block on a node-to-client connection (lines
\* 210-211), a header on a node-to-node one, for which the handler fetches the
\* block (lines 214-220)
RollForward ==
    /\ MayCallBack
    /\ SyncRunning
    /\ \E s \in Slots, t \in Slots, fetchOk \in BOOLEAN :
         /\ hTip' = TipAt(t)
         /\ IF ~oConn.useNtn
            THEN /\ fetchOk
                 /\ hBlock' = BlockAt(s)
                 /\ hPc' = "rf_block"
                 /\ UNCHANGED connVars
            ELSE IF fetchOk
            THEN /\ hBlock' = BlockAt(HexDecodePoint(BlockAt(s)).slot)
                 /\ hPc' = "rf_header_block"
                 /\ UNCHANGED connVars
            ELSE /\ hBlock' = NoBlock
                 /\ hPc' = "idle"
                 /\ HandlerFails("block fetch failed")
    /\ notifs' = notifs + 1
    /\ UNCHANGED <<filterVars, optionVars, rangeVars, sendVars, errorVars, startVars,
                   hPoint, hTx, syncCalls, blockRangeCalls, bulkNextSlot,
                   blocksFetched, statusVars, stopVars, panic>>

\* handleRollForward, case ledger.Block, lines 211-213
handleRollForward_Block ==
    /\ panic = ""
    /\ hPc = "rf_block"
    /\ UNCHANGED filterVars
    /\ IF eventChanClosed THEN SendPanics
       ELSE /\ Sent(NewBlockEvent(hBlock))
            /\ status' = updateStatus(hBlock.slotNumber, hBlock.blockNumber,
                                      hBlock.hash, hTip.point.slot,
                                      HexEncode(hTip.point.hash))
            /\ statusUpdates' = statusUpdates + 1
            /\ hPc' = "idle"
            /\ hBlock' = NoBlock
            /\ hTip' = NoTip
            /\ UNCHANGED <<optionVars, connVars, rangeVars, errorVars, startVars,
                           hPoint, hTx, protocolVars, stopVars>>

\* handleRollForward, case ledger.BlockHeader, lines 221-222
handleRollForward_HeaderBlock ==
    /\ panic = ""
    /\ hPc = "rf_header_block"
    /\ UNCHANGED filterVars
    /\ IF eventChanClosed THEN SendPanics
       ELSE /\ Sent(NewBlockEvent(hBlock))
            /\ hPc' = "rf_header_tx"
            /\ hTx' = 1
            /\ UNCHANGED <<optionVars, connVars, rangeVars, errorVars, startVars,
                           hBlock, hPoint, hTip, protocolVars, statusVars, stopVars>>

\* mutant of handleRollForward_HeaderTx: the transactions are walked backwards
handleRollForward_HeaderTx_Reversed ==
    /\ panic = ""
    /\ hPc = "rf_header_tx"
    /\ hTx <= Len(hBlock.transactions)
    /\ UNCHANGED filterVars
    /\ IF eventChanClosed THEN SendPanics
       ELSE /\ Sent(NewTransactionEvent(hBlock,
                 hBlock.transactions[Len(hBlock.transactions) + 1 - hTx]))
            /\ hTx' = hTx + 1
            /\ UNCHANGED <<optionVars, connVars, rangeVars, errorVars, startVars,
                           hPc, hBlock, hPoint, hTip, protocolVars, statusVars,
                           stopVars>>

\* handleRollForward, case ledger.BlockHeader, lines 223-226: one turn of the loop
handleRollForward_HeaderTx ==
    /\ panic = ""
    /\ hPc = "rf_header_tx"
    /\ hTx <= Len(hBlock.transactions)
    /\ UNCHANGED filterVars
    /\ IF eventChanClosed THEN SendPanics
       ELSE /\ Sent(NewTransactionEvent(hBlock, hBlock.transactions[hTx]))
            /\ hTx' = hTx + 1
            /\ UNCHANGED <<optionVars, connVars, rangeVars, errorVars, startVars,
                           hPc, hBlock, hPoint, hTip, protocolVars, statusVars,
                           stopVars>>

\* handleRollForward, case ledger.BlockHeader, lines 227-229: after the loop
handleRollForward_HeaderFinish ==
    /\ panic = ""
    /\ hPc = "rf_header_tx"
    /\ hTx > Len(hBlock.transactions)
    /\ status' = updateStatus(hBlock.slotNumber, hBlock.blockNumber, hBlock.hash,
                              hTip.point.slot, HexEncode(hTip.point.hash))
    /\ statusUpdates' = statusUpdates + 1
    /\ hPc' = "idle"
    /\ hBlock' = NoBlock
    /\ hTip' = NoTip
    /\ hTx' = 0
    /\ UNCHANGED <<filterVars, optionVars, connVars, rangeVars, sendVars, errorVars,
                   startVars, hPoint, protocolVars, stopVars, panic>>

\* the chain-sync protocol reports a rollback (line 202, entry of
\* handleRollBackward)
RollBackward ==
    /\ MayCallBack
    /\ SyncRunning
    /\ \E s \in Slots, t \in Slots :
         /\ hPoint' = PointAt(s)
         /\ hTip' = TipAt(t)
    /\ hPc' = "rb_event"
    /\ notifs' = notifs + 1
    /\ UNCHANGED <<filterVars, optionVars, connVars, rangeVars, sendVars, errorVars,
                   startVars, hBlock, hTx, syncCalls, blockRangeCalls, bulkNextSlot,
                   blocksFetched, statusVars, stopVars, panic>>

\* mutant of handleRollBackward_Event: the status is rewound to the rollback point
handleRollBackward_Event_Rewinds ==
    /\ panic = ""
    /\ hPc = "rb_event"
    /\ UNCHANGED filterVars
    /\ IF eventChanClosed THEN SendPanics
       ELSE /\ Sent(NewRollbackEvent(hPoint))
            /\ status' = [status EXCEPT !.slotNumber = hPoint.slot,
                                        !.blockHash = HexEncode(hPoint.hash)]
            /\ hPc' = "idle"
            /\ hPoint' = ZeroPoint
            /\ hTip' = NoTip
            /\ UNCHANGED <<optionVars, connVars, rangeVars, errorVars, startVars,
                           hBlock, hTx, protocolVars, statusUpdates, stopVars>>

\* handleRollBackward, lines 203-205
handleRollBackward_Event ==
    /\ panic = ""
    /\ hPc = "rb_event"
    /\ UNCHANGED filterVars
    /\ IF eventChanClosed THEN SendPanics
       ELSE /\ Sent(NewRollbackEvent(hPoint))
            /\ hPc' = "idle"
            /\ hPoint' = ZeroPoint
            /\ hTip' = NoTip
            /\ UNCHANGED <<optionVars, connVars, rangeVars, errorVars, startVars,
                           hBlock, hTx, protocolVars, statusVars, stopVars>>

\* the next stage receives from OutputChan() (lines 127-129)
EventConsumerRecv ==
    /\ panic = ""
    /\ eventChan # <<>>
    /\ eventChan' = Tail(eventChan)
    /\ UNCHANGED <<filterVars, optionVars, connVars, rangeVars, lastSent, prevSent,
                   blockEventsSent, errorVars, startVars, handlerVars, protocolVars,
                   statusVars, stopVars, panic>>

\* the connection reports a protocol-level failure on its error channel
ConnFail ==
    /\ panic = ""
    /\ startPc = "started"
    /\ oConn.state = "open"
    /\ HandlerFails("protocol error")
    /\ UNCHANGED <<filterVars, optionVars, rangeVars, sendVars, errorVars, startVars,
                   handlerVars, protocolVars, statusVars, stopVars, panic>>

\* lines 190-197: err, ok := <-c.oConn.ErrorChan(), and the close of line 197
ForwarderRecv ==
    /\ panic = ""
    /\ forwarderPc = "recv"
    /\ UNCHANGED <<filterVars, optionVars, oConn, connErrorsClosed, rangeVars, sendVars,
                   errorsReceived, startVars, handlerVars, protocolVars, statusVars,
                   stopVars>>
    /\ IF connErrors # <<>>
       THEN /\ forwarderErr' = Head(connErrors)
            /\ connErrors' = Tail(connErrors)
            /\ forwarderPc' = "send"
            /\ UNCHANGED <<errorChanClosed, panic>>
       ELSE /\ connErrorsClosed
            /\ UNCHANGED <<connErrors, forwarderErr>>
            /\ IF errorChanClosed
               THEN /\ panic' = "close of closed errorChan"
                    /\ UNCHANGED <<errorChanClosed, forwarderPc>>
               ELSE /\ errorChanClosed' = TRUE
                    /\ forwarderPc' = "done"
                    /\ UNCHANGED panic

\* mutant of ForwarderSend: the channel is closed once the error is delivered
ForwarderSend_ThenClose ==
    /\ panic = ""
    /\ forwarderPc = "send"
    /\ UNCHANGED <<filterVars, optionVars, connVars, rangeVars, sendVars, forwarderErr,
                   startVars, handlerVars, protocolVars, statusVars, stopVars>>
    /\ IF errorChanClosed
       THEN /\ panic' = "send on closed errorChan"
            /\ UNCHANGED <<errorChanClosed, errorsReceived, forwarderPc>>
       ELSE /\ errorsReceived' = Append(errorsReceived, forwarderErr)
            /\ forwarderPc' = "done"
            /\ errorChanClosed' = TRUE
            /\ UNCHANGED panic

\* lines 192-196: c.errorChan <- err, taken by the owner reading ErrorChan()
\* (the channel is unbuffered), then return
ForwarderSend ==
    /\ panic = ""
    /\ forwarderPc = "send"
    /\ UNCHANGED <<filterVars, optionVars, connVars, rangeVars, sendVars, forwarderErr,
                   startVars, handlerVars, protocolVars, statusVars, stopVars>>
    /\ IF errorChanClosed
       THEN /\ panic' = "send on closed errorChan"
            /\ UNCHANGED <<errorChanClosed, errorsReceived, forwarderPc>>
       ELSE /\ errorsReceived' = Append(errorsReceived, forwarderErr)
            /\ forwarderPc' = "done"
            /\ UNCHANGED <<errorChanClosed, panic>>

\* Stop, line 110: err := c.oConn.Close(), which also closes the connection's
\* error channel
StopCloseConn ==
    /\ panic = ""
    /\ startPc = "started"
    /\ engineStopPc = "none"
    /\ oConn' = [oConn EXCEPT !.state = "closed"]
    /\ connErrorsClosed' = TRUE
    /\ engineStopPc' = "conn_closed"
    /\ UNCHANGED <<filterVars, optionVars, connErrors, rangeVars, sendVars, errorVars,
                   startVars, handlerVars, protocolVars, statusVars, eventChanClosed,
                   panic>>

\* Stop, line 111: close(c.eventChan)
StopCloseEventChan ==
    /\ panic = ""
    /\ engineStopPc = "conn_closed"
    /\ eventChanClosed' = TRUE
    /\ engineStopPc' = "event_closed"
    /\ UNCHANGED <<filterVars, optionVars, connVars, rangeVars, sendVars, errorVars,
                   startVars, handlerVars, protocolVars, statusVars, panic>>

\* Stop, lines 112-113: close(c.errorChan); return err
StopCloseErrorChan ==
    /\ panic = ""
    /\ engineStopPc = "event_closed"
    /\ UNCHANGED <<filterVars, optionVars, connVars, rangeVars, sendVars,
                   errorsReceived, forwarderPc, forwarderErr, startVars,
                   handlerVars, protocolVars, statusVars, eventChanClosed>>
    /\ IF errorChanClosed
       THEN /\ panic' = "close of closed errorChan"
            /\ UNCHANGED <<errorChanClosed, engineStopPc>>
       ELSE /\ errorChanClosed' = TRUE
            /\ engineStopPc' = "done"
            /\ UNCHANGED panic

\* no filter stage beside the engine
FilterUnused == FilterNew({<<>>}, {<<>>}, {<<>>}, {<<BlockEvt>>}, 0)

SyncInit ==
    /\ panic = ""
    /\ EngineNew(OptionSamples, MaxNotifs)
    /\ FilterUnused

SyncNext ==
    \/ Start
    \/ BlockFetchBlock
    \/ handleBlockFetchBlock_Block
    \/ handleBlockFetchBlock_Tx
    \/ handleBlockFetchBlock_Finish
    \/ RollForward
    \/ handleRollForward_Block
    \/ handleRollForward_HeaderBlock
    \/ handleRollForward_HeaderTx
    \/ handleRollForward_HeaderFinish
    \/ RollBackward
    \/ handleRollBackward_Event
    \/ EventConsumerRecv

\* the engine fed by the node and drained by the next stage
SyncSpec == SyncInit /\ [][SyncNext]_vars

EngineInit ==
    /\ panic = ""
    /\ EngineNew(OptionSamples, MaxNotifsLife)
    /\ FilterUnused

EngineNext ==
    \/ SyncNext
    \/ ConnFail
    \/ ForwarderRecv
    \/ ForwarderSend
    \/ StopCloseConn
    \/ StopCloseEventChan
    \/ StopCloseErrorChan

\* the same, with connection failures and the owner's Stop
EngineSpec == EngineInit /\ [][EngineNext]_vars

-----------------------------------------------------------------------------
\* Start under every kind of configuration

\* protocol callbacks per run when all configurations are started
MaxNotifsStart == 1

\* every combination of the connection and strategy options
StartOptionSamples ==
    {Option(n, a, p, t, b, i) :
        n \in {"", "mainnet", "devnet", "testnet9"}, a \in {"", "node:3001"},
        p \in {"", "/node.socket"}, t \in BOOLEAN, b \in BOOLEAN, i \in BOOLEAN}

\* configured intersect points (WithIntersectPoints)
IntersectPointSamples == {<<>>, <<PointAt(0)>>, <<PointAt(1), PointAt(0)>>}

StartInit ==
    /\ panic = ""
    /\ EngineNewWith(StartOptionSamples, IntersectPointSamples, MaxNotifsStart)
    /\ FilterUnused

\* the engine under every configuration, with one protocol callback
StartSpec == StartInit /\ [][EngineNext]_vars

-----------------------------------------------------------------------------
\* Claims about the sync engine

\* Start took the bulk path
BulkMode == blockRangeCalls # <<>>

\* the callback that handles a fetched block is running
InBlockFetch == hPc \in {"bf_block", "bf_tx"}

\* C1: in bulk mode the incremental chain-sync request is issued at most once,
\* and exactly once as soon as the fetched block at bulkRangeEnd's slot has been
\* handled; it is issued by that block's handler, after the block's events were
\* enqueued and its status update applied, with bulkRangeEnd as the only
\* intersect point.
C1_SwitchOnce ==
    BulkMode =>
        /\ Len(syncCalls) <= 1
        /\ \A i \in 1..Len(syncCalls) :
             /\ syncCalls[i].by = "handleBlockFetchBlock"
             /\ syncCalls[i].slot = bulkRangeEnd.slot
             /\ syncCalls[i].points = <<bulkRangeEnd>>
             /\ syncCalls[i].sent = Len(BlockAt(bulkRangeEnd.slot).transactions) + 1
             /\ syncCalls[i].statusSlot = bulkRangeEnd.slot
        /\ (bulkNextSlot > bulkRangeEnd.slot /\ ~InBlockFetch) <=> syncCalls # <<>>

C1_Witness ==
    /\ BulkMode
    /\ bulkRangeStart.slot < bulkRangeEnd.slot
    /\ blocksFetched = bulkRangeEnd.slot - bulkRangeStart.slot + 1
    /\ Len(syncCalls) = 1
    /\ syncCalls[1].ok
    /\ hPc = "idle"

IsEngineTx(e) == e.kind = "chainsync.transaction"

\* position of a transaction event's transaction in its block
TxIndex(e) ==
    CHOOSE i \in 1..Len(TransactionsAt(e.slotNumber)) :
        TransactionsAt(e.slotNumber)[i].hash = e.transactionHash

\* e, enqueued right after prev, is in its place
InPlace(prev, e) ==
    IsEngineTx(e) =>
        /\ \E i \in 1..Len(TransactionsAt(e.slotNumber)) :
             TransactionsAt(e.slotNumber)[i].hash = e.transactionHash
        /\ e.blockHash = BlockAt(e.slotNumber).hash
        /\ IF TxIndex(e) = 1
           THEN prev = NewBlockEvent(BlockAt(e.slotNumber))
           ELSE prev = NewTransactionEvent(BlockAt(e.slotNumber),
                           TransactionsAt(e.slotNumber)[TxIndex(e) - 1])

\* C2: on every path a transaction event is enqueued right after the block
\* event of its block (the block's first transaction) or right after the event
\* of the transaction before it in the block: the block event comes first, the
\* transaction events follow in block order, nothing comes between them.
C2_BlockThenTxsInOrder ==
    /\ InPlace(prevSent, lastSent)
    /\ \A k \in 2..Len(eventChan) : InPlace(eventChan[k - 1], eventChan[k])
    /\ hPc \in {"bf_tx", "rf_header_tx"} =>
         lastSent = IF hTx = 1 THEN NewBlockEvent(hBlock)
                    ELSE NewTransactionEvent(hBlock, hBlock.transactions[hTx - 1])

C2_Witness ==
    /\ blocksFetched >= 1
    /\ hPc = "rf_header_tx"
    /\ Len(hBlock.transactions) >= 2
    /\ hTx > Len(hBlock.transactions)
    /\ lastSent = NewTransactionEvent(hBlock, hBlock.transactions[Len(hBlock.transactions)])
    /\ Len(eventChan) >= 3

\* C3: no step sets status.tipReached back to false (so it turns true at most
\* once).
C3_TipReachedStays == [][status.tipReached => status'.tipReached]_vars

\* tipReached is still true after an update that by itself could not set it
C3_Witness ==
    /\ status.tipReached
    /\ statusUpdates >= 3
    /\ status.slotNumber = 0

\* C4: in bulk mode, until the first chain-sync notification, every fetched
\* block has produced exactly one block event and tipReached is false, also
\* right after the block at bulkRangeEnd's slot has triggered the switch.
C4_BulkNeverReachesTip ==
    (BulkMode /\ notifs = blocksFetched) =>
        /\ ~status.tipReached
        /\ status.slotNumber <= bulkRangeEnd.slot
        /\ blockEventsSent = blocksFetched - (IF hPc = "bf_block" THEN 1 ELSE 0)

C4_Witness ==
    /\ BulkMode
    /\ notifs = blocksFetched
    /\ blocksFetched = 3
    /\ blockEventsSent = 3
    /\ syncCalls # <<>>
    /\ hPc = "idle"
    /\ status.slotNumber = bulkRangeEnd.slot
    /\ ~status.tipReached

\* C8 as claimed: once the forwarding task has delivered the connection's
\* error, the error channel is closed.
C8_Original ==
    (forwarderPc = "done" /\ errorsReceived # <<>>) => errorChanClosed

\* C8 as amended: the connection's error is delivered on the error channel once,
\* the forwarding task then returns, and the channel stays open until Stop
\* closes it.
C8_DeliveredOnceLeftOpen ==
    /\ Len(errorsReceived) <= 1
    /\ errorsReceived # <<>> => forwarderPc = "done"
    /\ (errorsReceived # <<>> /\ errorChanClosed) => engineStopPc = "done"

C8_Witness ==
    /\ errorsReceived # <<>>
    /\ forwarderPc = "done"
    /\ ~errorChanClosed
    /\ engineStopPc = "none"
    /\ oConn.state = "failed"

\* C9: Stop closes the connection, then the event queue, then the error queue,
\* and no callback sends on the closed event queue.
C9_NoSendAfterStop ==
    /\ eventChanClosed => oConn.state = "closed"
    /\ (errorChanClosed /\ engineStopPc = "done") => eventChanClosed
    /\ panic # "send on closed eventChan"

\* C11: a roll-forward callback that has enqueued a block event and returned
\* has also enqueued one transaction event per transaction of that block, so
\* the last event enqueued is a bare block event only for a block without
\* transactions; and the status then holds that block's slot, number and hash.
C11_FullBlockEvents ==
    (hPc = "idle" /\ lastSent.kind = "chainsync.block") =>
        /\ Len(TransactionsAt(lastSent.slotNumber)) = 0
        /\ status.slotNumber = lastSent.slotNumber
        /\ status.blockNumber = lastSent.blockNumber
        /\ status.blockHash = lastSent.blockHash

\* C12: the roll-backward callback enqueues exactly one event, a rollback event
\* for the notified point, and changes no field of the status and does not run
\* the status update; the status changes only in the status update with which a
\* block's callback ends, after that block's events were enqueued.
C12_RollbackLeavesStatus ==
    [][/\ hPc = "rb_event" =>
            /\ status' = status
            /\ statusUpdates' = statusUpdates
            /\ IF hPc' = "rb_event"
               THEN Len(eventChan') <= Len(eventChan)
               ELSE /\ hPc' = "idle"
                    /\ Len(eventChan') = Len(eventChan) + 1
                    /\ SubSeq(eventChan', 1, Len(eventChan)) = eventChan
                    /\ eventChan'[Len(eventChan')].kind = "chainsync.rollback"
                    /\ eventChan'[Len(eventChan')].slotNumber = hPoint.slot
       /\ (status' # status \/ statusUpdates' # statusUpdates) =>
            /\ hPc \in {"bf_tx", "rf_block", "rf_header_tx"}
            /\ hPc' = "idle"
            /\ statusUpdates' = statusUpdates + 1
            /\ lastSent'.kind \in {"chainsync.block", "chainsync.transaction"}
            /\ lastSent'.slotNumber = status'.slotNumber
      ]_vars

\* a rollback to an earlier point was enqueued and the status still shows the
\* block handled before it
C12_Witness ==
    /\ hPc = "idle"
    /\ lastSent.kind = "chainsync.rollback"
    /\ statusUpdates >= 1
    /\ lastSent.slotNumber < status.slotNumber
    /\ status.blockNumber = BlockAt(status.slotNumber).blockNumber

\* the chain tip a rollback event carries (none when the event has no tip)
RollbackTipOf(e) == IF "tip" \in DOMAIN e THEN e.tip ELSE NoTip

\* C13: the rollback event the roll-backward callback enqueues carries the
\* rollback point and the chain tip that came with the notification.
C13_RollbackCarriesTip ==
    [][(hPc = "rb_event" /\ hPc' = "idle") =>
            /\ lastSent'.kind = "chainsync.rollback"
            /\ lastSent'.slotNumber = hPoint.slot
            /\ HexDecode(lastSent'.blockHash) = hPoint.hash
            /\ RollbackTipOf(lastSent') = hTip
      ]_vars

\* the tip a block's callback passes to its status update: the bulk range's
\* end for a fetched block, the notification's tip for a roll-forward
SuppliedTip == IF hPc = "bf_tx" THEN bulkRangeEnd ELSE hTip.point

\* C14: a status update turns tipReached from false to true exactly when the
\* new slot is past the bulk range's end slot, the slot recorded before is not
\* zero and the new slot is at least the tip slot recorded before; otherwise
\* tipReached keeps its value. The other five fields take the supplied values
\* in every update.
C14_UpdateStatus ==
    [][statusUpdates' # statusUpdates =>
            /\ status'.tipReached =
                   (\/ status.tipReached
                    \/ /\ hBlock.slotNumber > bulkRangeEnd.slot
                       /\ status.slotNumber # 0
                       /\ hBlock.slotNumber >= status.tipSlotNumber)
            /\ status'.slotNumber = hBlock.slotNumber
            /\ status'.blockNumber = hBlock.blockNumber
            /\ status'.blockHash = hBlock.hash
            /\ status'.tipSlotNumber = SuppliedTip.slot
            /\ HexDecode(status'.tipBlockHash) = SuppliedTip.hash
      ]_vars

\* the second update reached the tip recorded by the first, below its own tip
C14_Witness ==
    /\ statusUpdates = 2
    /\ status.tipReached
    /\ status.slotNumber < status.tipSlotNumber
    /\ hPc = "idle"

\* Start returned after the connection was set up
StartedOn(conn) == startPc = "new" /\ conn.state = "open"

\* Start went the bulk way: the range query, then the range fetch, and no
\* chain-sync request
BulkPathTaken(err, ranges, syncs, rangeStart, rangeEnd) ==
    /\ syncs = <<>>
    /\ \/ err = "range query failed" /\ ranges = <<>>
       \/ /\ Len(ranges) = 1
          /\ ranges[1].from = intersectPoints
          /\ ranges[1].start = rangeStart
          /\ ranges[1].end = rangeEnd
          /\ err = IF ranges[1].ok THEN "" ELSE "range fetch failed"

\* Start went the incremental way: the tip query when intersectTip is set,
\* then one chain-sync request from the tip's point, or from the configured
\* points when intersectTip is not set
IncrementalPathTaken(err, ranges, syncs, points) ==
    /\ ranges = <<>>
    /\ \/ options.intersectTip /\ err = "tip query failed" /\ syncs = <<>>
       \/ /\ Len(syncs) = 1
          /\ syncs[1].by = "Start"
          /\ syncs[1].points = points
          /\ IF options.intersectTip
             THEN \E t \in Slots : points = <<TipAt(t).point>>
             ELSE points = intersectPoints
          /\ err = IF syncs[1].ok THEN "" ELSE "sync failed"

\* C15 as claimed: after connection setup, Start takes the bulk path when
\* bulkMode is set and intersectTip is not, and the incremental path in every
\* other case.
C15_Original ==
    [][StartedOn(oConn') =>
         IF options.bulkMode /\ ~options.intersectTip
         THEN BulkPathTaken(startErr', blockRangeCalls', syncCalls',
                            bulkRangeStart', bulkRangeEnd')
         ELSE IncrementalPathTaken(startErr', blockRangeCalls', syncCalls',
                                   intersectPoints')
      ]_vars

\* C15 as amended: the bulk path also needs a connection that offers block
\* fetch, which is a node-to-node connection.
C15_BulkNeedsBlockFetch ==
    [][StartedOn(oConn') =>
         IF options.bulkMode /\ ~options.intersectTip /\ oConn'.useNtn
         THEN BulkPathTaken(startErr', blockRangeCalls', syncCalls',
                            bulkRangeStart', bulkRangeEnd')
         ELSE IncrementalPathTaken(startErr', blockRangeCalls', syncCalls',
                                   intersectPoints')
      ]_vars

\* bulkMode on a node-to-client connection, configured points: chain-sync was
\* started from those points
C15_Witness ==
    /\ startPc = "started"
    /\ options.bulkMode /\ ~options.intersectTip
    /\ ~oConn.useNtn
    /\ options.ntcTcp /\ options.address # ""
    /\ Len(intersectPoints) = 2
    /\ Len(syncCalls) = 1
    /\ syncCalls[1].points = intersectPoints
    /\ blockRangeCalls = <<>>

\* the names ouroboros.NetworkByName knows in this model
KnownNetworks == {"mainnet", "devnet"}

\* nothing to connect to was configured
NoTargetSupplied ==
    options.network = "" /\ options.address = "" /\ options.socketPath = ""

\* a network name was configured that is not a known one
UnknownNetworkSupplied == options.network # "" /\ options.network \notin KnownNetworks

\* C16: with no network name, address or socket path, and with an unrecognized
\* network name (whatever comes with it), Start fails with a configuration
\* error; no connection is dialed, the error-forwarding task is not started, no
\* protocol request is made and no event is enqueued, then or later.
C16_ConfigurationError ==
    (startPc # "new" /\ (NoTargetSupplied \/ UnknownNetworkSupplied)) =>
        /\ startPc = "failed"
        /\ startErr = IF UnknownNetworkSupplied THEN "unknown network"
                      ELSE "you must specify a host/port, UNIX socket path, or well-known network name"
        /\ oConn.state = "nil"
        /\ forwarderPc = "none"
        /\ syncCalls = <<>> /\ blockRangeCalls = <<>>
        /\ eventChan = <<>> /\ lastSent = NoEngineEvent
        /\ errorsReceived = <<>>
        /\ notifs = 0

\* an unrecognized network name, given with a socket path and an address
C16_Witness ==
    /\ startPc = "failed"
    /\ UnknownNetworkSupplied
    /\ options.socketPath # ""
    /\ options.address # ""
    /\ startErr = "unknown network"

\* C17: a roll-forward callback that returns the error of its failed block
\* fetch has returned at once (one fetch, no second try), and it has enqueued
\* no event and left the status and the count of status updates as they were.
C17_FailedFetch ==
    [][(notifs' = notifs + 1 /\ connErrors' # connErrors) =>
            /\ oConn.useNtn
            /\ connErrors' = Append(connErrors, "block fetch failed")
            /\ hPc' = "idle"
            /\ eventChan' = eventChan
            /\ lastSent' = lastSent
            /\ blockEventsSent' = blockEventsSent
            /\ status' = status
            /\ statusUpdates' = statusUpdates
      ]_vars

\* the fetch failed after a block had been handled: that block's status and
\* events stand
C17_Witness ==
    /\ connErrors = <<"block fetch failed">>
    /\ oConn.state = "failed"
    /\ hPc = "idle"
    /\ statusUpdates = 1
    /\ status.slotNumber = 2
    /\ lastSent.kind = "chainsync.transaction"
    /\ lastSent.slotNumber = 2

\* C18: whatever the order of Stop's steps and the error-forwarding task's,
\* the error channel is never closed a second time and never sent on once
\* closed.
C18_ErrorChanClosedOnce ==
    /\ panic # "close of closed errorChan"
    /\ panic # "send on closed errorChan"

\* C19: whatever the order of Stop's steps and the loop's, the loop does not
\* send on the outbound queue once Stop has closed it, also when it holds an
\* event it took before Stop ran or was waiting for room in the queue.
C19_NoSendOnClosedOutput ==
    ~(loopPc = "send" /\ outputChanClosed /\ panic = "send on closed channel")

\* the bulk phase is over (the switch to chain-sync was made) and its range
\* ended past slot 0
BulkCompleted == BulkMode /\ syncCalls # <<>> /\ bulkRangeEnd.slot > 0

\* this step is the status update of a roll-forward block past the bulk range
RollForwardPastRange ==
    /\ BulkCompleted
    /\ hPc \in {"rf_block", "rf_header_tx"}
    /\ statusUpdates' = statusUpdates + 1
    /\ hBlock.slotNumber > bulkRangeEnd.slot

\* C20 as claimed: after a bulk phase, the status update of the first
\* roll-forward block past the bulk range's end sets tipReached, whatever tip
\* comes with it (tipReached stays once set, so every update of a block past
\* the range then ends with tipReached set).
C20_Original ==
    [][RollForwardPastRange => status'.tipReached]_vars

\* C20 as amended: this holds of a roll-forward block past the range's end
\* that is the first block handled after the bulk phase: the status then still
\* holds the bulk phase's last block and the range's end as tip.
C20_FirstAfterBulk ==
    [][(RollForwardPastRange /\ statusUpdates = blocksFetched) =>
            /\ status.slotNumber = bulkRangeEnd.slot
            /\ status.tipSlotNumber = bulkRangeEnd.slot
            /\ ~status.tipReached
            /\ status'.tipReached
      ]_vars

\* the first block after the bulk phase set tipReached below the tip the node
\* reported with it
C20_Witness ==
    /\ BulkCompleted
    /\ hPc = "idle"
    /\ statusUpdates = blocksFetched + 1
    /\ status.tipReached
    /\ status.slotNumber > bulkRangeEnd.slot
    /\ status.tipSlotNumber > status.slotNumber

====
